---- MODULE Spec2Model ----
(***************************************************************************)
(* RealtimeTranscriber (studio/services/realtime.py): the microphone-to-   *)
(* text streaming engine.  One transcriber object, the consumer thread     *)
(* that calls start(), stop() and get_segment_nowait(), the audio          *)
(* subsystem that invokes _audio_callback, and the capture-supervisor and  *)
(* worker threads that every effective start() spawns.                     *)
(*                                                                         *)
(* Time is counted in whole seconds and amplitudes in whole units, so      *)
(* that the float arithmetic of the source (exact for the default          *)
(* chunk_seconds = 2.0) becomes integer arithmetic.  Threads interleave    *)
(* between accesses to the shared fields of the object; the statement      *)
(* self._processed_seconds += self.chunk_seconds is a read followed by a   *)
(* write, as CPython executes it.                                          *)
(*                                                                         *)
(* Two further programs of the repository have a specification of their    *)
(* own in this module: SubtitleTranslator.translate_text                   *)
(* (src/subtitle_translator.py, TranslateSpec) and CopilotAgent.run_task   *)
(* with run_task_json (src/agent.py, AgentSpec), and the directory watch   *)
(* of CopilotAgent: watch_directory, stop_watching and _watch_loop         *)
(* (src/agent.py, WatchSpec).                                              *)
(***************************************************************************)
EXTENDS Integers, Sequences, FiniteSets, TLC

\* ------------------------------------------------------------------ bounds
MaxStarts == 2      \* effective start() calls, hence thread pairs
MaxCalls  == 3      \* effective start() calls and stop() calls in a run
MaxFrames == 2      \* buffers _audio_callback enqueues in a run
LiveFrames == 1     \* the same, in the runs checked for termination
MaxYield  == 1      \* triples one transcribe() result yields at most
MaxBeforeDrop == 1  \* buffers enqueued before a device drops, at most
MaxRetries == 3     \* largest max_retries a SubtitleTranslator is given
MaxText == 2        \* characters in the text handed to translate_text
MaxWatches == 2     \* watch_directory() calls, hence watcher threads
MaxStopWatch == 2   \* stop_watching() calls in a run

\* ------------------------------------------- constructor parameters (scaled)
sample_rate      == 1   \* samples per second
chunk_seconds    == 2   \* seconds per chunk
energy_threshold == 2   \* amplitude units

Threads == 1..MaxStarts

\* The buffers the audio subsystem may deliver: one or two samples each.
FrameSet == {<<3>>, <<1, 1>>, <<3, 3>>}

WarnText == <<"[WARN]">>
ErrText  == <<"[ERR]">>

VARIABLES
    running,            \* self._running (threading.Event)
    stream,             \* self._stream: 0 is None, else the stream object's id
    audio_q,            \* self._audio_q
    seg_q,              \* self._seg_q
    segments,           \* self.segments
    processed_seconds,  \* self._processed_seconds
    caller,             \* position of the consumer thread inside stop()
    wpc,                \* worker threads: position in _worker_loop
    wloc,               \* worker threads: locals of _worker_loop
    spc,                \* supervisor threads: position in _stream_loop
    sobj,               \* the InputStream object each supervisor created
    device,             \* the audio device of this run: "ok", or how it fails
    supply,             \* buffers the audio device delivers in this run
    hist,               \* history: counters and logs the claims refer to
    imports,            \* the module's np, sd, WhisperModel: FALSE is None
    ctor,               \* RealtimeTranscriber(): position, attributes created
    \* SubtitleTranslator.translate_text (src/subtitle_translator.py)
    text_arg,           \* the argument `text`
    max_retries,        \* self.max_retries
    translator,         \* self._translator: "missing" (None, and
                        \* deep_translator cannot be imported), "unloaded"
                        \* (None), "loaded"
    tpc,                \* position in translate_text
    attempt,            \* the loop variable of line 106
    tlog,               \* history: outcome of each translator.translate call
    ret,                \* the value returned
    \* CopilotAgent.run_task / run_task_json (src/agent.py)
    task_json,          \* how the task arrives: as a dict, or as JSON text
    task,               \* the task dict
    processor,          \* what the VideoProcessor call of this task does
    apc,                \* position in run_task_json / run_task
    reply,              \* the value returned
    pcalls,             \* history: calls made to self._processor
    \* CopilotAgent.watch_directory / stop_watching / _watch_loop
    stop_watch_event,   \* self._stop_watch_event (threading.Event)
    watch_thread,       \* self._watch_thread: 0 is None, else the thread's id
    entries,            \* what the watched directory holds
    poll_interval,      \* the argument poll_interval, in seconds
    lpc,                \* watcher threads: position in _watch_loop, locals
    wcaller,            \* position of the consumer thread in stop_watching()
    whist               \* history: sessions opened, calls of the processor

\* The variables of RealtimeTranscriber, of translate_text and of run_task.
rvars == <<running, stream, audio_q, seg_q, segments, processed_seconds,
           caller, wpc, wloc, spc, sobj, device, supply, hist, imports, ctor>>
tvars == <<text_arg, max_retries, translator, tpc, attempt, tlog, ret>>
avars == <<task_json, task, processor, apc, reply, pcalls>>
wvars == <<stop_watch_event, watch_thread, entries, poll_interval, lpc,
           wcaller, whist>>

\* What no method of a constructed transcriber and none of its threads
\* changes.
outside == <<imports, ctor, supply, tvars, avars, wvars>>

vars == <<rvars, tvars, avars, wvars>>

\* ----------------------------------------------------------------- values
NoSeg == [start |-> 0, end |-> 0, text |-> <<>>]
NoTriple == [start |-> 0, end |-> 0, text |-> <<>>]

\* RealtimeSegment(start, end, text)
RealtimeSegment(a, b, t) == [start |-> a, end |-> b, text |-> t]

RECURSIVE SumLen(_)
\* sum(int(x.shape[0]) for x in buf)
SumLen(buf) == IF buf = <<>> THEN 0 ELSE Len(Head(buf)) + SumLen(Tail(buf))

RECURSIVE Concatenate(_)
\* np.concatenate(buf, axis=0).flatten()
Concatenate(buf) == IF buf = <<>> THEN <<>> ELSE Head(buf) \o Concatenate(Tail(buf))

RECURSIVE SumSq(_)
\* sum of np.square(audio)
SumSq(a) == IF a = <<>> THEN 0 ELSE Head(a) * Head(a) + SumSq(Tail(a))

\* int(self.sample_rate * self.chunk_seconds)
samples_needed == sample_rate * chunk_seconds

\* rms < self.energy_threshold, with rms = sqrt(mean(square(audio))) and 0.0
\* for an empty buffer: both sides are non-negative, so the squares compare
\* the same way.
BelowThreshold(a) ==
    IF a = <<>> THEN 0 < energy_threshold
    ELSE SumSq(a) < energy_threshold * energy_threshold * Len(a)

RECURSIVE LStrip(_)
LStrip(t) == IF t # <<>> /\ Head(t) = " " THEN LStrip(Tail(t)) ELSE t

RECURSIVE RStrip(_)
RStrip(t) ==
    IF t # <<>> /\ t[Len(t)] = " " THEN RStrip(SubSeq(t, 1, Len(t) - 1)) ELSE t

\* (seg.text or "").strip()
Strip(t) == RStrip(LStrip(t))

\* Seconds of audio handed to the model.
Duration(a) == Len(a) \div sample_rate

\* What the model may yield next for the buffer `a`: a triple relative to the
\* buffer and inside it, not before the triple yielded last; either one
\* second of padded text or an instant of blank text.
ModelTriples(a, last) ==
    { [start |-> x, end |-> x + 1, text |-> <<" ", "a">>] :
        x \in last..(Duration(a) - 1) }
    \cup { [start |-> last, end |-> last, text |-> <<" ">>] }

\* ------------------------------------------------------------------ state
\* Locals of one _worker_loop activation.  k (the number of the chunk in
\* hand, in the order chunks are formed) and tr (the model triple in hand)
\* are history, not program state.
NoLocals ==
    [buf |-> <<>>, audio |-> <<>>, tmp |-> 0, offset |-> 0, s |-> NoSeg,
     yielded |-> 0, last |-> 0, k |-> 0, tr |-> NoTriple]

\* No call of translate_text.
NoTranslation ==
    /\ text_arg = <<>> /\ max_retries = 0 /\ translator = "unloaded"
    /\ tpc = "none" /\ attempt = 0 /\ tlog = <<>> /\ ret = <<>>

\* No call of run_task.
NoTask ==
    /\ task_json = "none"
    /\ task = [action |-> "", video_path |-> "None", srt_path |-> "None",
               directory |-> "None"]
    /\ processor = "none"
    /\ apc = "none"
    /\ reply = [status |-> "none", message |-> ""]
    /\ pcalls = 0

\* The watcher threads that watch_directory() may create.
WatchThreads == 1..MaxWatches

\* No directory entry.
NoEntry == [stem |-> "", suffix |-> "", file |-> FALSE]

\* A watcher thread that has not been created.  session (the session that
\* was open when the thread last found the stop event clear) is history.
NoLoop ==
    [pc |-> "unborn", processed |-> {}, todo |-> {}, entry |-> NoEntry,
     session |-> 0]

\* No directory watch.
NoWatch ==
    /\ stop_watch_event = FALSE
    /\ watch_thread = 0
    /\ entries = {}
    /\ poll_interval = 5
    /\ lpc = [t \in WatchThreads |-> NoLoop]
    /\ wcaller = "none"
    /\ whist = [session |-> 0, open |-> FALSE, stops |-> 0, passed |-> <<>>,
                failed |-> {}]

\* The module has been imported (lines 11-24: a failed import leaves None)
\* and RealtimeTranscriber() is being called.  The fields hold the values
\* __init__ gives them; ctor.created tells which of them exist yet.
Init ==
    /\ imports \in [np : BOOLEAN, sd : BOOLEAN, WhisperModel : BOOLEAN]
    /\ ctor = [pc |-> "call", created |-> {}]
    /\ NoTranslation
    /\ NoTask
    /\ NoWatch
    /\ running = FALSE
    /\ stream = 0
    /\ audio_q = <<>>
    /\ seg_q = <<>>
    /\ segments = <<>>
    /\ processed_seconds = 0
    /\ caller = "idle"
    /\ wpc = [w \in Threads |-> "unborn"]
    /\ wloc = [w \in Threads |-> NoLocals]
    /\ spc = [t \in Threads |-> [pc |-> "unborn", target |-> 0]]
    /\ sobj = [t \in Threads |-> "none"]
    /\ device \in {"ok", "open_fails", "start_fails"}
    /\ supply \in LiveFrames..MaxFrames
    /\ hist = [spawned |-> 0, stops |-> 0, frames |-> 0, chunks |-> 0, voiced |-> 0,
               calls |-> 0, samples |-> 0,
               counted |-> 0, pushed |-> <<>>, delivered |-> <<>>]

\* A push onto self._seg_q, as the history records it: the Segment, the
\* chunk it belongs to (0: none) and its kind.
Pushed(seg, k, kind) == [seg |-> seg, k |-> k, kind |-> kind]

\* ------------------------------------------------------- the constructor
\* __init__ that tests np and sd only
CtorCheck_SkipsModelTest ==
    /\ ctor.pc = "call"
    /\ ctor' = [ctor EXCEPT !.pc = IF ~imports.np \/ ~imports.sd
                                   THEN "raised" ELSE "build"]
    /\ UNCHANGED <<running, stream, audio_q, seg_q, segments, processed_seconds,
                   caller, wpc, wloc, spc, sobj, device, hist, imports>>
    /\ UNCHANGED <<supply, tvars, avars, wvars>>

\* __init__, lines 61-64: raise RuntimeError if np or sd is None, then if
\* WhisperModel is None.
CtorCheck ==
    /\ ctor.pc = "call"
    /\ ctor' = [ctor EXCEPT !.pc = IF ~imports.np \/ ~imports.sd THEN "raised"
                                   ELSE IF ~imports.WhisperModel THEN "raised"
                                   ELSE "build"]
    /\ UNCHANGED <<running, stream, audio_q, seg_q, segments, processed_seconds,
                   caller, wpc, wloc, spc, sobj, device, hist, imports>>
    /\ UNCHANGED <<supply, tvars, avars, wvars>>

\* __init__, lines 66-95: the parameters are stored, the two queues, the
\* event and the stream field are created (76-79), then the model (82-88),
\* whose construction may raise (and does if WhisperModel is None), then the
\* accumulator and the log (91-92).
CtorBuild ==
    /\ ctor.pc = "build"
    /\ \/ /\ ctor' = [pc |-> "raised",
                      created |-> {"_audio_q", "_seg_q", "_running", "_stream"}]
          /\ UNCHANGED <<running, stream, audio_q, seg_q, segments,
                         processed_seconds>>
       \/ /\ imports.WhisperModel
          /\ ctor' = [pc |-> "done",
                      created |-> {"_audio_q", "_seg_q", "_running", "_stream",
                                   "_model", "_processed_seconds", "segments"}]
          /\ audio_q' = <<>>
          /\ seg_q' = <<>>
          /\ running' = FALSE
          /\ stream' = 0
          /\ processed_seconds' = 0
          /\ segments' = <<>>
    /\ UNCHANGED <<caller, wpc, wloc, spc, sobj, device, hist, imports>>
    /\ UNCHANGED <<supply, tvars, avars, wvars>>

\* ------------------------------------------------- the consumer's thread
\* start() without the test of line 98: it goes on to spawn whatever the flag
StartCheck_IgnoresFlag ==
    /\ ctor.pc = "done"
    /\ caller = "idle"
    /\ hist.spawned < MaxStarts /\ hist.spawned + hist.stops < MaxCalls
    /\ caller' = "start_spawn"
    /\ UNCHANGED <<running, stream, audio_q, seg_q, segments,
                   processed_seconds, wpc, wloc, spc, sobj, device, hist>>
    /\ UNCHANGED outside

\* start(), line 98: if self._running.is_set()
StartCheck ==
    /\ ctor.pc = "done"
    /\ caller = "idle"
    /\ running \/ (hist.spawned < MaxStarts /\ hist.spawned + hist.stops < MaxCalls)
    /\ caller' = IF running THEN "start_return" ELSE "start_spawn"
    /\ UNCHANGED <<running, stream, audio_q, seg_q, segments,
                   processed_seconds, wpc, wloc, spc, sobj, device, hist>>
    /\ UNCHANGED outside

\* start(), line 99: return
StartReturn ==
    /\ caller = "start_return"
    /\ caller' = "idle"
    /\ UNCHANGED <<running, stream, audio_q, seg_q, segments,
                   processed_seconds, wpc, wloc, spc, sobj, device, hist>>
    /\ UNCHANGED outside

\* start(), lines 100-107: set the flag, start a worker thread and a
\* capture-supervisor thread
StartSpawn ==
    /\ caller = "start_spawn"
    /\ caller' = "idle"
    /\ running' = TRUE
    /\ wpc' = [wpc EXCEPT ![hist.spawned + 1] = "while"]
    /\ spc' = [spc EXCEPT ![hist.spawned + 1].pc = "open"]
    /\ hist' = [hist EXCEPT !.spawned = @ + 1]
    /\ UNCHANGED <<device, stream, audio_q, seg_q, segments, processed_seconds,
                   wloc, sobj>>
    /\ UNCHANGED outside

\* stop() that also resets the offset accumulator
StopClose_ResetsOffset ==
    /\ ctor.pc = "done"
    /\ caller = "idle"
    /\ hist.spawned + hist.stops < MaxCalls
    /\ caller' = IF running THEN "stop_reset" ELSE "stop_reset_idle"
    /\ running' = FALSE
    /\ processed_seconds' = 0
    /\ sobj' = IF stream # 0 THEN [sobj EXCEPT ![stream] = "closed"] ELSE sobj
    /\ hist' = [hist EXCEPT !.stops = @ + 1]
    /\ UNCHANGED <<device, stream, audio_q, seg_q, segments, wpc, wloc, spc>>
    /\ UNCHANGED outside

\* stop(), lines 110-116: clear the flag, stop and close the stream that
\* self._stream names (errors swallowed).  The position remembers whether
\* the flag was set when stop() was called.
StopClose ==
    /\ ctor.pc = "done"
    /\ caller = "idle"
    /\ hist.spawned + hist.stops < MaxCalls
    /\ caller' = IF running THEN "stop_reset" ELSE "stop_reset_idle"
    /\ running' = FALSE
    /\ sobj' = IF stream # 0 THEN [sobj EXCEPT ![stream] = "closed"] ELSE sobj
    /\ hist' = [hist EXCEPT !.stops = @ + 1]
    /\ UNCHANGED <<device, stream, audio_q, seg_q, segments, processed_seconds,
                   wpc, wloc, spc>>
    /\ UNCHANGED outside

\* stop(), line 117: self._stream = None
StopReset ==
    /\ caller \in {"stop_reset", "stop_reset_idle"}
    /\ caller' = "idle"
    /\ stream' = 0
    /\ UNCHANGED <<running, audio_q, seg_q, segments, processed_seconds,
                   wpc, wloc, spc, sobj, device, hist>>
    /\ UNCHANGED outside

\* get_segment_nowait() that takes the newest Segment of the queue
GetSegmentNowait_TakesNewest ==
    /\ ctor.pc = "done"
    /\ caller = "idle"
    /\ IF seg_q = <<>>
       THEN UNCHANGED <<seg_q, hist>>
       ELSE /\ seg_q' = SubSeq(seg_q, 1, Len(seg_q) - 1)
            /\ hist' = [hist EXCEPT !.delivered = Append(@, seg_q[Len(seg_q)])]
    /\ UNCHANGED <<device, running, stream, audio_q, segments, processed_seconds,
                   caller, wpc, wloc, spc, sobj>>
    /\ UNCHANGED outside

\* get_segment_nowait(): lines 122-126
GetSegmentNowait ==
    /\ ctor.pc = "done"
    /\ caller = "idle"
    /\ IF seg_q = <<>>
       THEN UNCHANGED <<seg_q, hist>>
       ELSE /\ seg_q' = Tail(seg_q)
            /\ hist' = [hist EXCEPT !.delivered = Append(@, Head(seg_q))]
    /\ UNCHANGED <<device, running, stream, audio_q, segments, processed_seconds,
                   caller, wpc, wloc, spc, sobj>>
    /\ UNCHANGED outside

\* ---------------------------------------------------- the audio subsystem
\* _audio_callback() without the test of line 129: it enqueues whatever the
\* flag
AudioCallback_IgnoresFlag ==
    /\ \E o \in Threads : sobj[o] = "active"
    /\ hist.frames < supply
    /\ \E indata \in FrameSet :
         /\ audio_q' = Append(audio_q, indata)
         /\ hist' = [hist EXCEPT !.frames = @ + 1]
    /\ UNCHANGED <<device, running, stream, seg_q, segments, processed_seconds,
                   caller, wpc, wloc, spc, sobj>>
    /\ UNCHANGED outside

\* _audio_callback(): lines 128-134, invoked with a buffer while a stream
\* is active.
AudioCallback ==
    /\ \E o \in Threads : sobj[o] = "active"
    /\ hist.frames < supply
    /\ IF ~running
       THEN UNCHANGED <<audio_q, hist>>
       ELSE \E indata \in FrameSet :
              /\ audio_q' = Append(audio_q, indata)
              /\ hist' = [hist EXCEPT !.frames = @ + 1]
    /\ UNCHANGED <<device, running, stream, seg_q, segments, processed_seconds,
                   caller, wpc, wloc, spc, sobj>>
    /\ UNCHANGED outside

\* The device of the active stream o drops: the audio subsystem stops
\* invoking the callback of line 145.  Nothing is raised in the thread that
\* sleeps at line 149, and the stream object stays open.
DeviceDrop(o) ==
    /\ sobj[o] = "active"
    /\ hist.frames <= MaxBeforeDrop
    /\ sobj' = [sobj EXCEPT ![o] = "dropped"]
    /\ UNCHANGED <<device, running, stream, audio_q, seg_q, segments,
                   processed_seconds, caller, wpc, wloc, spc, hist>>
    /\ UNCHANGED outside

\* -------------------------------------------- the capture supervisor thread
\* _stream_loop() whose handler leaves the run flag as it is
StreamOpen_KeepsFlag(t) ==
    /\ spc[t].pc = "open"
    /\ IF device = "open_fails"
       THEN /\ spc' = [spc EXCEPT ![t].pc = "fail_put"]
            /\ UNCHANGED <<running, stream, sobj>>
       ELSE /\ sobj' = [sobj EXCEPT ![t] = "created"]
            /\ stream' = t
            /\ spc' = [spc EXCEPT ![t].pc = "enter"]
            /\ UNCHANGED running
    /\ UNCHANGED <<audio_q, seg_q, segments, processed_seconds, caller, wpc,
                   wloc, device, hist>>
    /\ UNCHANGED outside

\* _stream_loop(), lines 140-146: sd.InputStream(...) either raises (the
\* handler's line 151 then clears the flag) or returns a stream object,
\* which is stored in self._stream.
StreamOpen(t) ==
    /\ spc[t].pc = "open"
    /\ IF device = "open_fails"
       THEN /\ running' = FALSE
            /\ spc' = [spc EXCEPT ![t].pc = "fail_put"]
            /\ UNCHANGED <<stream, sobj>>
       ELSE /\ sobj' = [sobj EXCEPT ![t] = "created"]
            /\ stream' = t
            /\ spc' = [spc EXCEPT ![t].pc = "enter"]
            /\ UNCHANGED running
    /\ UNCHANGED <<audio_q, seg_q, segments, processed_seconds, caller, wpc,
                   wloc, device, hist>>
    /\ UNCHANGED outside

\* self._stream names a stream object that has not been closed.
Enterable == IF stream = 0 THEN FALSE ELSE sobj[stream] # "closed"

\* self._stream names a stream object whose device has dropped.
Dropped == IF stream = 0 THEN FALSE ELSE sobj[stream] = "dropped"

\* _stream_loop(), line 147: `with self._stream:` reads the field again and
\* enters what it names.  None has no __enter__, a closed stream cannot be
\* started, and the device may refuse to start: each raises into line 151.
\* Starting a stream that is already active is accepted; starting one whose
\* device has dropped may raise or may bring it back.
StreamEnter(t) ==
    /\ spc[t].pc = "enter"
    /\ \/ /\ ~Enterable \/ device = "start_fails" \/ Dropped
          /\ running' = FALSE
          /\ spc' = [spc EXCEPT ![t].pc = "fail_put"]
          /\ UNCHANGED sobj
       \/ /\ Enterable /\ device # "start_fails"
          /\ sobj' = [sobj EXCEPT ![stream] = "active"]
          /\ spc' = [spc EXCEPT ![t] = [pc |-> "poll", target |-> stream]]
          /\ UNCHANGED running
    /\ UNCHANGED <<stream, audio_q, seg_q, segments, processed_seconds,
                   caller, wpc, wloc, device, hist>>
    /\ UNCHANGED outside

\* _stream_loop(), lines 148-149 and the end of the with block: the loop
\* sleeps while the flag is set; once it is clear the block exits, which
\* stops and closes the entered stream.
StreamExit(t) ==
    /\ spc[t].pc = "poll"
    /\ ~running
    /\ sobj' = [sobj EXCEPT ![spc[t].target] = "closed"]
    /\ spc' = [spc EXCEPT ![t].pc = "done"]
    /\ UNCHANGED <<device, running, stream, audio_q, seg_q, segments,
                   processed_seconds, caller, wpc, wloc, hist>>
    /\ UNCHANGED outside

\* _stream_loop(), line 152: push the synthetic stream-error Segment.
StreamFailPut(t) ==
    /\ spc[t].pc = "fail_put"
    /\ seg_q' = Append(seg_q, RealtimeSegment(0, 0, ErrText))
    /\ hist' = [hist EXCEPT !.pushed =
                  Append(@, Pushed(RealtimeSegment(0, 0, ErrText), 0, "err"))]
    /\ spc' = [spc EXCEPT ![t].pc = "done"]
    /\ UNCHANGED <<device, running, stream, audio_q, segments, processed_seconds,
                   caller, wpc, wloc, sobj>>
    /\ UNCHANGED outside

\* ------------------------------------------------------- the worker thread
\* _worker_loop(), line 159: while self._running.is_set()
WorkerWhile(w) ==
    /\ wpc[w] = "while"
    /\ wpc' = [wpc EXCEPT ![w] = IF running THEN "get" ELSE "done"]
    /\ UNCHANGED <<device, running, stream, audio_q, seg_q, segments,
                   processed_seconds, caller, wloc, spc, sobj, hist>>
    /\ UNCHANGED outside

\* _worker_loop() whose get of line 161 waits without a timeout
WorkerGet_WaitsForFrame(w) ==
    /\ wpc[w] = "get"
    /\ audio_q # <<>>
    /\ LET buf == Append(wloc[w].buf, Head(audio_q))
           audio == Concatenate(buf)
       IN /\ audio_q' = Tail(audio_q)
          /\ IF SumLen(buf) < samples_needed
             THEN /\ wloc' = [wloc EXCEPT ![w].buf = buf]
                  /\ wpc' = [wpc EXCEPT ![w] = "while"]
                  /\ UNCHANGED hist
             ELSE /\ wloc' = [wloc EXCEPT ![w].buf = <<>>,
                                          ![w].audio = audio,
                                          ![w].k = hist.chunks + 1]
                  /\ hist' = [hist EXCEPT
                                !.chunks = @ + 1,
                                !.samples = @ + Len(audio),
                                !.voiced = IF BelowThreshold(audio)
                                           THEN @ ELSE @ + 1]
                  /\ wpc' = [wpc EXCEPT ![w] =
                                IF BelowThreshold(audio) THEN "silent_read"
                                                         ELSE "offset"]
    /\ UNCHANGED <<device, running, stream, seg_q, segments, processed_seconds,
                   caller, spc, sobj>>
    /\ UNCHANGED outside

\* _worker_loop(), lines 160-177 up to the gate's verdict: take a buffer
\* from the raw-frame queue (or time out), accumulate, and once
\* samples_needed are there flatten them into the chunk and gate it.
WorkerGet(w) ==
    /\ wpc[w] = "get"
    /\ IF audio_q = <<>>
       THEN /\ wpc' = [wpc EXCEPT ![w] = "while"]
            /\ UNCHANGED <<audio_q, wloc, hist>>
       ELSE LET buf == Append(wloc[w].buf, Head(audio_q))
                audio == Concatenate(buf)
            IN /\ audio_q' = Tail(audio_q)
               /\ IF SumLen(buf) < samples_needed
                  THEN /\ wloc' = [wloc EXCEPT ![w].buf = buf]
                       /\ wpc' = [wpc EXCEPT ![w] = "while"]
                       /\ UNCHANGED hist
                  ELSE /\ wloc' = [wloc EXCEPT ![w].buf = <<>>,
                                               ![w].audio = audio,
                                               ![w].k = hist.chunks + 1]
                       /\ hist' = [hist EXCEPT
                                     !.chunks = @ + 1,
                                     !.samples = @ + Len(audio),
                                     !.voiced = IF BelowThreshold(audio)
                                                THEN @ ELSE @ + 1]
                       /\ wpc' = [wpc EXCEPT ![w] =
                                     IF BelowThreshold(audio) THEN "silent_read"
                                                              ELSE "offset"]
    /\ UNCHANGED <<device, running, stream, seg_q, segments, processed_seconds,
                   caller, spc, sobj>>
    /\ UNCHANGED outside

\* line 176, self._processed_seconds += self.chunk_seconds: the read
WorkerSilentRead(w) ==
    /\ wpc[w] = "silent_read"
    /\ wloc' = [wloc EXCEPT ![w].tmp = processed_seconds]
    /\ wpc' = [wpc EXCEPT ![w] = "silent_write"]
    /\ UNCHANGED <<device, running, stream, audio_q, seg_q, segments,
                   processed_seconds, caller, spc, sobj, hist>>
    /\ UNCHANGED outside

\* line 176: the write, then `continue`
WorkerSilentWrite(w) ==
    /\ wpc[w] = "silent_write"
    /\ processed_seconds' = wloc[w].tmp + chunk_seconds
    /\ hist' = [hist EXCEPT !.counted = @ + 1]
    /\ wloc' = [wloc EXCEPT ![w] = NoLocals]
    /\ wpc' = [wpc EXCEPT ![w] = "while"]
    /\ UNCHANGED <<device, running, stream, audio_q, seg_q, segments, caller, spc, sobj>>
    /\ UNCHANGED outside

\* line 179: offset = self._processed_seconds
WorkerOffset(w) ==
    /\ wpc[w] = "offset"
    /\ wloc' = [wloc EXCEPT ![w].offset = processed_seconds]
    /\ wpc' = [wpc EXCEPT ![w] = "count_read"]
    /\ UNCHANGED <<device, running, stream, audio_q, seg_q, segments,
                   processed_seconds, caller, spc, sobj, hist>>
    /\ UNCHANGED outside

\* line 180, self._processed_seconds += self.chunk_seconds: the read
WorkerCountRead(w) ==
    /\ wpc[w] = "count_read"
    /\ wloc' = [wloc EXCEPT ![w].tmp = processed_seconds]
    /\ wpc' = [wpc EXCEPT ![w] = "count_write"]
    /\ UNCHANGED <<device, running, stream, audio_q, seg_q, segments,
                   processed_seconds, caller, spc, sobj, hist>>
    /\ UNCHANGED outside

\* line 180: the write; the thread then enters
\* self._model.transcribe(audio, ...) of line 184
WorkerCountWrite(w) ==
    /\ wpc[w] = "count_write"
    /\ processed_seconds' = wloc[w].tmp + chunk_seconds
    /\ hist' = [hist EXCEPT !.counted = @ + 1, !.calls = @ + 1]
    /\ wloc' = [wloc EXCEPT ![w].tmp = 0]
    /\ wpc' = [wpc EXCEPT ![w] = "transcribe"]
    /\ UNCHANGED <<device, running, stream, audio_q, seg_q, segments, caller, spc, sobj>>
    /\ UNCHANGED outside

\* line 197: the handler's diagnostic Segment, then the next iteration
Diagnostic(w) ==
    /\ seg_q' = Append(seg_q, RealtimeSegment(wloc[w].offset, wloc[w].offset, WarnText))
    /\ hist' = [hist EXCEPT !.pushed =
                  Append(@, Pushed(RealtimeSegment(wloc[w].offset, wloc[w].offset,
                                                   WarnText),
                                   wloc[w].k, "warn"))]
    /\ wloc' = [wloc EXCEPT ![w] = NoLocals]
    /\ wpc' = [wpc EXCEPT ![w] = "while"]

\* line 193 with the offset added to start only
SegmentsNext_EndNotOffset(w) ==
    /\ wpc[w] = "transcribe"
    /\ \/ /\ wloc' = [wloc EXCEPT ![w] = NoLocals]
          /\ wpc' = [wpc EXCEPT ![w] = "while"]
          /\ UNCHANGED <<seg_q, segments, hist>>
       \/ /\ Diagnostic(w)
          /\ UNCHANGED segments
       \/ /\ wloc[w].yielded < MaxYield
          /\ \E seg \in ModelTriples(wloc[w].audio, wloc[w].last) :
               LET text == Strip(seg.text)
                   s == RealtimeSegment(seg.start + wloc[w].offset,
                                        seg.end, text)
               IN IF text = <<>>
                  THEN /\ wloc' = [wloc EXCEPT ![w].yielded = @ + 1,
                                               ![w].last = seg.start]
                       /\ UNCHANGED <<wpc, segments>>
                  ELSE /\ wloc' = [wloc EXCEPT ![w].yielded = @ + 1,
                                               ![w].last = seg.start,
                                               ![w].tr = seg,
                                               ![w].s = s]
                       /\ segments' = Append(segments, s)
                       /\ wpc' = [wpc EXCEPT ![w] = "put"]
          /\ UNCHANGED <<seg_q, hist>>
    /\ UNCHANGED <<device, running, stream, audio_q, processed_seconds, caller, spc, sobj>>
    /\ UNCHANGED outside

\* lines 184-194, up to the next access to a shared field: transcribe()
\* raises, or returns its lazy segments; one turn of `for seg in segments`
\* then ends the loop, raises, or yields a triple, whose blank text is
\* skipped and which otherwise becomes the Segment s, appended to
\* self.segments.
SegmentsNext(w) ==
    /\ wpc[w] = "transcribe"
    /\ \/ /\ wloc' = [wloc EXCEPT ![w] = NoLocals]
          /\ wpc' = [wpc EXCEPT ![w] = "while"]
          /\ UNCHANGED <<seg_q, segments, hist>>
       \/ /\ Diagnostic(w)
          /\ UNCHANGED segments
       \/ /\ wloc[w].yielded < MaxYield
          /\ \E seg \in ModelTriples(wloc[w].audio, wloc[w].last) :
               LET text == Strip(seg.text)
                   s == RealtimeSegment(seg.start + wloc[w].offset,
                                        seg.end + wloc[w].offset, text)
               IN IF text = <<>>
                  THEN /\ wloc' = [wloc EXCEPT ![w].yielded = @ + 1,
                                               ![w].last = seg.start]
                       /\ UNCHANGED <<wpc, segments>>
                  ELSE /\ wloc' = [wloc EXCEPT ![w].yielded = @ + 1,
                                               ![w].last = seg.start,
                                               ![w].tr = seg,
                                               ![w].s = s]
                       /\ segments' = Append(segments, s)
                       /\ wpc' = [wpc EXCEPT ![w] = "put"]
          /\ UNCHANGED <<seg_q, hist>>
    /\ UNCHANGED <<device, running, stream, audio_q, processed_seconds, caller, spc, sobj>>
    /\ UNCHANGED outside

\* line 195: self._seg_q.put(s)
SegmentPut(w) ==
    /\ wpc[w] = "put"
    /\ seg_q' = Append(seg_q, wloc[w].s)
    /\ hist' = [hist EXCEPT !.pushed =
                  Append(@, Pushed(wloc[w].s, wloc[w].k, "text"))]
    /\ wloc' = [wloc EXCEPT ![w].s = NoSeg, ![w].tr = NoTriple]
    /\ wpc' = [wpc EXCEPT ![w] = "transcribe"]
    /\ UNCHANGED <<device, running, stream, audio_q, segments, processed_seconds,
                   caller, spc, sobj>>
    /\ UNCHANGED outside

\* ---------------------------------------------------------- specification
Next ==
    \/ CtorCheck
    \/ CtorBuild
    \/ StartCheck
    \/ StartReturn
    \/ StartSpawn
    \/ StopClose
    \/ StopReset
    \/ GetSegmentNowait
    \/ AudioCallback
    \/ \E o \in Threads : DeviceDrop(o)
    \/ \E t \in Threads : StreamOpen(t)
    \/ \E t \in Threads : StreamEnter(t)
    \/ \E t \in Threads : StreamExit(t)
    \/ \E t \in Threads : StreamFailPut(t)
    \/ \E w \in Threads : WorkerWhile(w)
    \/ \E w \in Threads : WorkerGet(w)
    \/ \E w \in Threads : WorkerSilentRead(w)
    \/ \E w \in Threads : WorkerSilentWrite(w)
    \/ \E w \in Threads : WorkerOffset(w)
    \/ \E w \in Threads : WorkerCountRead(w)
    \/ \E w \in Threads : WorkerCountWrite(w)
    \/ \E w \in Threads : SegmentsNext(w)
    \/ \E w \in Threads : SegmentPut(w)

Spec == Init /\ [][Next]_vars

\* One step of the capture-supervisor thread t, wherever it stands in
\* _stream_loop.
StreamStep(t) ==
    StreamOpen(t) \/ StreamEnter(t) \/ StreamExit(t) \/ StreamFailPut(t)

\* One step of the worker thread w, wherever it stands in _worker_loop.
WorkerStep(w) ==
    \/ WorkerWhile(w) \/ WorkerGet(w)
    \/ WorkerSilentRead(w) \/ WorkerSilentWrite(w)
    \/ WorkerOffset(w) \/ WorkerCountRead(w) \/ WorkerCountWrite(w)
    \/ SegmentsNext(w) \/ SegmentPut(w)

\* The runs checked for termination: the device delivers LiveFrames buffers
\* at most.
FairInit == Init /\ supply = LiveFrames

\* The threads that start() spawned keep being scheduled: a thread that can
\* take its next step takes it.  Every step of a thread returns by itself
\* (the sleep of line 149 and the get of line 161 time out, a put on an
\* unbounded queue does not wait) but the model call, which is assumed to
\* return.  Nothing is assumed of the consumer or of the audio subsystem.
FairSpec ==
    /\ FairInit /\ [][Next]_vars
    /\ \A t \in Threads : WF_vars(StreamStep(t))
    /\ \A w \in Threads : WF_vars(WorkerStep(w))

\* ===================================================================
\* SubtitleTranslator.translate_text (src/subtitle_translator.py)

\* Kinds of character: a space, a Latin letter, an ideograph of U+4E00-9FFF
\* or U+3400-4DBF, a kana.
Chars == {" ", "a", "han", "kana"}

\* The texts translate_text is called with.
Texts == UNION {[1..n -> Chars] : n \in 0..MaxText}

\* What translator.translate returns when it returns: a translation, or
\* nothing.
TranslateResults == {<<"han">>, <<>>}

\* _contains_chinese(text): re.search(r"[\u4e00-\u9fff\u3400-\u4dbf]", text)
contains_chinese(t) == \E i \in DOMAIN t : t[i] = "han"

\* The realtime transcriber is not part of a translate_text or run_task run.
NoRealtime ==
    /\ running = FALSE /\ stream = 0 /\ audio_q = <<>> /\ seg_q = <<>>
    /\ segments = <<>> /\ processed_seconds = 0 /\ caller = "idle"
    /\ wpc = [w \in Threads |-> "unborn"]
    /\ wloc = [w \in Threads |-> NoLocals]
    /\ spc = [t \in Threads |-> [pc |-> "unborn", target |-> 0]]
    /\ sobj = [t \in Threads |-> "none"]
    /\ device = "ok"
    /\ supply = 0
    /\ hist = [spawned |-> 0, stops |-> 0, frames |-> 0, chunks |-> 0,
               voiced |-> 0, calls |-> 0, samples |-> 0, counted |-> 0,
               pushed |-> <<>>, delivered |-> <<>>]
    /\ imports = [np |-> TRUE, sd |-> TRUE, WhisperModel |-> TRUE]
    /\ ctor = [pc |-> "call", created |-> {}]

\* A SubtitleTranslator (lines 69-78) on which translate_text(text) is
\* being called.
TranslateInit ==
    /\ text_arg \in Texts
    /\ max_retries \in 0..MaxRetries
    /\ translator \in {"missing", "unloaded", "loaded"}
    /\ tpc = "call"
    /\ attempt = 0
    /\ tlog = <<>>
    /\ ret = <<>>
    /\ NoRealtime
    /\ NoTask
    /\ NoWatch

\* translate_text that returns only blank text untranslated
TranslateCheck_BlankOnly ==
    /\ tpc = "call"
    /\ IF Strip(text_arg) = <<>>
       THEN ret' = text_arg /\ tpc' = "returned"
       ELSE tpc' = "get_translator" /\ UNCHANGED ret
    /\ UNCHANGED <<text_arg, max_retries, translator, attempt, tlog>>
    /\ UNCHANGED <<rvars, avars, wvars>>

\* translate_text, lines 100-103: blank text and text that contains an
\* ideograph are returned as they are.
TranslateCheck ==
    /\ tpc = "call"
    /\ IF Strip(text_arg) = <<>> \/ contains_chinese(text_arg)
       THEN ret' = text_arg /\ tpc' = "returned"
       ELSE tpc' = "get_translator" /\ UNCHANGED ret
    /\ UNCHANGED <<text_arg, max_retries, translator, attempt, tlog>>
    /\ UNCHANGED <<rvars, avars, wvars>>

\* line 105 and _get_translator, lines 187-201: the translator is loaded on
\* first use; ImportError leaves translate_text when deep_translator is
\* missing.  Then the loop of line 106 starts with attempt = 1.
GetTranslator ==
    /\ tpc = "get_translator"
    /\ IF translator = "missing"
       THEN tpc' = "raised" /\ UNCHANGED <<translator, attempt>>
       ELSE tpc' = "attempt" /\ translator' = "loaded" /\ attempt' = 1
    /\ UNCHANGED <<text_arg, max_retries, tlog, ret>>
    /\ UNCHANGED <<rvars, avars, wvars>>

\* translate_text that gives up at the first failure
TranslateAttempt_GivesUpAtOnce ==
    /\ tpc = "attempt"
    /\ attempt <= max_retries
    /\ \/ /\ tlog' = Append(tlog, [ok |-> FALSE, result |-> <<>>])
          /\ ret' = text_arg
          /\ tpc' = "returned"
          /\ UNCHANGED attempt
       \/ \E result \in TranslateResults :
            /\ tlog' = Append(tlog, [ok |-> TRUE, result |-> result])
            /\ ret' = IF result # <<>> THEN result ELSE text_arg
            /\ tpc' = "returned"
            /\ UNCHANGED attempt
    /\ UNCHANGED <<text_arg, max_retries, translator>>
    /\ UNCHANGED <<rvars, avars, wvars>>

\* lines 106-126, one turn of the loop: translator.translate(text) raises,
\* which is logged and followed by the next attempt, or returns, and
\* `result or text` is returned.
TranslateAttempt ==
    /\ tpc = "attempt"
    /\ attempt <= max_retries
    /\ \/ /\ tlog' = Append(tlog, [ok |-> FALSE, result |-> <<>>])
          /\ attempt' = attempt + 1
          /\ UNCHANGED <<ret, tpc>>
       \/ \E result \in TranslateResults :
            /\ tlog' = Append(tlog, [ok |-> TRUE, result |-> result])
            /\ ret' = IF result # <<>> THEN result ELSE text_arg
            /\ tpc' = "returned"
            /\ UNCHANGED attempt
    /\ UNCHANGED <<text_arg, max_retries, translator>>
    /\ UNCHANGED <<rvars, avars, wvars>>

\* lines 127-129: the loop is over, the original text is returned.
TranslateExhausted ==
    /\ tpc = "attempt"
    /\ attempt > max_retries
    /\ ret' = text_arg
    /\ tpc' = "returned"
    /\ UNCHANGED <<text_arg, max_retries, translator, attempt, tlog>>
    /\ UNCHANGED <<rvars, avars, wvars>>

TranslateNext ==
    \/ TranslateCheck
    \/ GetTranslator
    \/ TranslateAttempt
    \/ TranslateExhausted

TranslateSpec == TranslateInit /\ [][TranslateNext]_vars

\* ===================================================================
\* CopilotAgent.run_task / run_task_json (src/agent.py)

\* CopilotAgent.SUPPORTED_ACTIONS, lines 63-71
SUPPORTED_ACTIONS ==
    {"process_video", "generate_subtitles", "translate_subtitles",
     "burn_subtitles", "watch_directory", "stop_watch", "list_capabilities"}

\* Values of task["action"]: a supported name, another name, "" (what
\* task.get("action", "") gives when the key is absent), or a value that
\* cannot be hashed (a list or a dict, written "[]").
ActionValues == SUPPORTED_ACTIONS \cup {"fly_to_moon", "", "[]"}

\* Values of task.get(<parameter>): None when absent, an empty string, a
\* path.
ParamValues == {"None", "", "a.mp4"}

\* The actions whose handler calls self._processor.
ProcessorActions ==
    {"process_video", "generate_subtitles", "translate_subtitles",
     "burn_subtitles"}

\* `not <parameter>` of the handler's test, lines 191-192, 205-206, 217-218,
\* 229-231, 243-244.
Falsy(v) == v \in {"None", ""}

\* The handler of the task's action finds a required parameter missing.
MissingParameter(t) ==
    \/ t.action \in {"process_video", "generate_subtitles"} /\ Falsy(t.video_path)
    \/ t.action = "translate_subtitles" /\ Falsy(t.srt_path)
    \/ t.action = "burn_subtitles" /\ (Falsy(t.video_path) \/ Falsy(t.srt_path))
    \/ t.action = "watch_directory" /\ Falsy(t.directory)

\* The message of the handler's error result names this parameter.
RequiredMessage(t) ==
    IF t.action = "burn_subtitles" THEN "Both 'video_path' and 'srt_path' are required."
    ELSE IF t.action = "translate_subtitles" THEN "'srt_path' is required."
    ELSE IF t.action = "watch_directory" THEN "'directory' is required."
    ELSE "'video_path' is required."

\* A CopilotAgent on which run_task(task) is called with a dict, or
\* run_task_json(task_json) with text that is not JSON, is a JSON object,
\* or is other JSON (an array, a number).
AgentInit ==
    /\ task_json \in {"dict", "invalid", "object", "non_object"}
    /\ task \in [action : ActionValues, video_path : ParamValues,
                  srt_path : ParamValues, directory : ParamValues]
    /\ processor \in {"returns", "raises"}
    /\ apc = IF task_json = "dict" THEN "run_task" ELSE "run_task_json"
    /\ reply = [status |-> "none", message |-> ""]
    /\ pcalls = 0
    /\ NoRealtime
    /\ NoTranslation
    /\ NoWatch

\* run_task_json, lines 137-141: json.loads, whose JSONDecodeError gives
\* the error reply; else run_task(task).
RunTaskJson ==
    /\ apc = "run_task_json"
    /\ IF task_json = "invalid"
       THEN /\ reply' = [status |-> "error", message |-> "Invalid JSON"]
            /\ apc' = "returned"
       ELSE /\ apc' = "run_task"
            /\ UNCHANGED reply
    /\ UNCHANGED <<task_json, task, processor, pcalls>>
    /\ UNCHANGED <<rvars, tvars, wvars>>

\* run_task, lines 101-109: task.get raises AttributeError on what is not
\* a dict; `action not in self.SUPPORTED_ACTIONS` raises TypeError on a
\* value that cannot be hashed; an unknown action gives the error reply
\* whose message quotes it.
RunTask ==
    /\ apc = "run_task"
    /\ IF task_json = "non_object" \/ task.action = "[]"
       THEN apc' = "raised" /\ UNCHANGED reply
       ELSE IF task.action \notin SUPPORTED_ACTIONS
       THEN /\ reply' = [status |-> "error", message |-> task.action]
            /\ apc' = IF task_json = "dict" THEN "returned" ELSE "dumps"
       ELSE apc' = "handler" /\ UNCHANGED reply
    /\ UNCHANGED <<task_json, task, processor, pcalls>>
    /\ UNCHANGED <<rvars, tvars, wvars>>

\* run_task, lines 111-128, and the handlers, lines 190-262: a missing
\* parameter gives an error reply before any call; else the handler's call
\* (of self._processor, or of watch_directory / stop_watching) returns and
\* the reply is "ok", or raises and line 128 turns it into an error reply.
\* _action_list_capabilities calls nothing.
ActionHandler ==
    /\ apc = "handler"
    /\ IF MissingParameter(task)
       THEN /\ reply' = [status |-> "error", message |-> RequiredMessage(task)]
            /\ UNCHANGED pcalls
       ELSE /\ pcalls' = IF task.action \in ProcessorActions
                         THEN pcalls + 1 ELSE pcalls
            /\ reply' = IF processor = "raises" /\ task.action # "list_capabilities"
                        THEN [status |-> "error", message |-> "str(exc)"]
                        ELSE [status |-> "ok", message |-> ""]
    /\ apc' = IF task_json = "dict" THEN "returned" ELSE "dumps"
    /\ UNCHANGED <<task_json, task, processor>>
    /\ UNCHANGED <<rvars, tvars, wvars>>

\* run_task_json, line 142: json.dumps(result, default=str)
RunTaskJsonDumps ==
    /\ apc = "dumps"
    /\ apc' = "returned"
    /\ UNCHANGED <<task_json, task, processor, reply, pcalls>>
    /\ UNCHANGED <<rvars, tvars, wvars>>

AgentNext ==
    \/ RunTaskJson
    \/ RunTask
    \/ ActionHandler
    \/ RunTaskJsonDumps

AgentSpec == AgentInit /\ [][AgentNext]_vars

\* ===================================================================
\* CopilotAgent.watch_directory / stop_watching / _watch_loop (src/agent.py)

\* _VIDEO_EXTENSIONS, line 45
VIDEO_EXTENSIONS == {".mp4", ".mkv", ".avi", ".mov", ".webm", ".flv", ".ts"}

\* What the watched directory may come to hold: two video files, one of
\* them with an upper-case suffix, and a directory whose name ends like a
\* video's.
Entries ==
    {[stem |-> "a", suffix |-> ".mp4", file |-> TRUE],
     [stem |-> "b", suffix |-> ".MKV", file |-> TRUE],
     [stem |-> "c", suffix |-> ".mp4", file |-> FALSE]}

\* str.lower() on the suffixes above
Lower(x) == IF x = ".MKV" THEN ".mkv" ELSE x

\* The test of lines 306-310, but for `entry not in processed`.
IsVideoFile(e) == e.file /\ Lower(e.suffix) \in VIDEO_EXTENSIONS

\* threading.Thread.is_alive()
is_alive(t) == lpc[t].pc \notin {"unborn", "exited", "died"}

\* A CopilotAgent (lines 73-82) with no watch yet; poll_interval is what
\* every watch_directory() of the run is given: the default, or a negative
\* number.
WatchInit ==
    /\ stop_watch_event = FALSE
    /\ watch_thread = 0
    /\ entries = {}
    /\ poll_interval \in {5, -1}
    /\ lpc = [t \in WatchThreads |-> NoLoop]
    /\ wcaller = "idle"
    /\ whist = [session |-> 0, open |-> FALSE, stops |-> 0, passed |-> <<>>,
                failed |-> {}]
    /\ NoRealtime
    /\ NoTranslation
    /\ NoTask

\* A file or directory appears in the watched directory.
EntryAppears(e) ==
    /\ e \notin entries
    /\ entries' = entries \cup {e}
    /\ UNCHANGED <<stop_watch_event, watch_thread, poll_interval, lpc, wcaller,
                   whist>>
    /\ UNCHANGED <<rvars, tvars, avars>>

\* watch_directory(), lines 169-177: clear the event, create and start a
\* watcher thread.  The consumer opens a session once it has closed the one
\* before with stop_watching().
WatchDirectory ==
    /\ wcaller = "idle"
    /\ ~whist.open
    /\ whist.session < MaxWatches
    /\ stop_watch_event' = FALSE
    /\ watch_thread' = whist.session + 1
    /\ lpc' = [lpc EXCEPT ![whist.session + 1].pc = "while"]
    /\ whist' = [whist EXCEPT !.session = @ + 1, !.open = TRUE]
    /\ UNCHANGED <<entries, poll_interval, wcaller>>
    /\ UNCHANGED <<rvars, tvars, avars>>

\* stop_watching(), lines 181-182: set the event; join the thread that
\* self._watch_thread names if it is alive.
StopWatchingSet ==
    /\ wcaller = "idle"
    /\ whist.stops < MaxStopWatch
    /\ stop_watch_event' = TRUE
    /\ wcaller' = IF watch_thread # 0 /\ is_alive(watch_thread)
                  THEN "join" ELSE "idle"
    /\ whist' = [whist EXCEPT !.stops = @ + 1, !.open = FALSE]
    /\ UNCHANGED <<watch_thread, entries, poll_interval, lpc>>
    /\ UNCHANGED <<rvars, tvars, avars>>

\* stop_watching(), lines 183-184: join(timeout=10) returns when the
\* thread has ended, or after ten seconds, which a thread inside
\* self._processor.process() may well outlast.
StopWatchingJoin ==
    /\ wcaller = "join"
    /\ ~is_alive(watch_thread) \/ lpc[watch_thread].pc = "process"
    /\ wcaller' = "idle"
    /\ UNCHANGED <<stop_watch_event, watch_thread, entries, poll_interval, lpc,
                   whist>>
    /\ UNCHANGED <<rvars, tvars, avars>>

\* _watch_loop(), line 303: while not self._stop_watch_event.is_set()
WatchWhile(t) ==
    /\ lpc[t].pc = "while"
    /\ lpc' = [lpc EXCEPT ![t].pc = IF stop_watch_event THEN "exited"
                                    ELSE "iterdir",
                          ![t].session = IF stop_watch_event THEN @
                                         ELSE whist.session]
    /\ UNCHANGED <<stop_watch_event, watch_thread, entries, poll_interval,
                   wcaller, whist>>
    /\ UNCHANGED <<rvars, tvars, avars>>

\* line 305: directory.iterdir() lists what the directory holds now, or
\* raises OSError, which line 324 catches.
WatchIterdir(t) ==
    /\ lpc[t].pc = "iterdir"
    /\ \/ lpc' = [lpc EXCEPT ![t].pc = "for", ![t].todo = entries]
       \/ lpc' = [lpc EXCEPT ![t].pc = "sleep"]
    /\ UNCHANGED <<stop_watch_event, watch_thread, entries, poll_interval,
                   wcaller, whist>>
    /\ UNCHANGED <<rvars, tvars, avars>>

\* lines 305-314, one turn of the for loop up to the call of the
\* processor: an entry that is a video file not yet in `processed` is added
\* to it and announced with self._on_progress, whose exception line 324
\* catches, and the processor is called with it; at the end of the listing
\* the thread goes to sleep.
WatchFor(t) ==
    /\ lpc[t].pc = "for"
    /\ IF lpc[t].todo = {}
       THEN /\ lpc' = [lpc EXCEPT ![t].pc = "sleep"]
            /\ UNCHANGED whist
       ELSE \E entry \in lpc[t].todo :
              IF IsVideoFile(entry) /\ entry \notin lpc[t].processed
              THEN \/ /\ lpc' = [lpc EXCEPT ![t].todo = @ \ {entry},
                                            ![t].processed = @ \cup {entry},
                                            ![t].entry = entry,
                                            ![t].pc = "process"]
                      /\ whist' = [whist EXCEPT !.passed =
                                     Append(@, [session |-> lpc[t].session,
                                                thread |-> t,
                                                entry |-> entry])]
                   \/ /\ lpc' = [lpc EXCEPT ![t].todo = {},
                                            ![t].processed = @ \cup {entry},
                                            ![t].pc = "sleep"]
                      /\ UNCHANGED whist
              ELSE /\ lpc' = [lpc EXCEPT ![t].todo = @ \ {entry}]
                   /\ UNCHANGED whist
    /\ UNCHANGED <<stop_watch_event, watch_thread, entries, poll_interval,
                   wcaller>>
    /\ UNCHANGED <<rvars, tvars, avars>>

\* lines 313-323: self._processor.process(entry, ...) returns, or raises an
\* exception that line 320 catches and logs; the for loop goes on.
WatchProcess(t) ==
    /\ lpc[t].pc = "process"
    /\ lpc' = [lpc EXCEPT ![t].pc = "for", ![t].entry = NoEntry]
    /\ \/ UNCHANGED whist
       \/ whist' = [whist EXCEPT !.failed =
                      @ \cup {[thread |-> t, entry |-> lpc[t].entry]}]
    /\ UNCHANGED <<stop_watch_event, watch_thread, entries, poll_interval,
                   wcaller>>
    /\ UNCHANGED <<rvars, tvars, avars>>

\* line 326: time.sleep(poll_interval), outside both try blocks; it raises
\* ValueError for a negative length, which ends the thread.
WatchSleep(t) ==
    /\ lpc[t].pc = "sleep"
    /\ lpc' = [lpc EXCEPT ![t].pc = IF poll_interval < 0 THEN "died"
                                    ELSE "while",
                          ![t].todo = {}]
    /\ UNCHANGED <<stop_watch_event, watch_thread, entries, poll_interval,
                   wcaller, whist>>
    /\ UNCHANGED <<rvars, tvars, avars>>

WatchNext ==
    \/ \E e \in Entries : EntryAppears(e)
    \/ WatchDirectory
    \/ StopWatchingSet
    \/ StopWatchingJoin
    \/ \E t \in WatchThreads : WatchWhile(t)
    \/ \E t \in WatchThreads : WatchIterdir(t)
    \/ \E t \in WatchThreads : WatchFor(t)
    \/ \E t \in WatchThreads : WatchProcess(t)
    \/ \E t \in WatchThreads : WatchSleep(t)

WatchSpec == WatchInit /\ [][WatchNext]_vars

\* ===================================================================
\* Properties

\* No worker holds a chunk: every chunk formed so far has been processed
\* to the end.
Quiescent == \A w \in Threads : wpc[w] \in {"unborn", "while", "get", "done"}

\* Worker threads that are past the gate with a voiced chunk and have not
\* yet counted it.
BeforeCall == {w \in Threads : wpc[w] \in {"offset", "count_read", "count_write"}}

\* Offset of the k-th chunk on the capture timeline.
ChunkOffset(k) == (k - 1) * chunk_seconds

PushedSegs == [i \in DOMAIN hist.pushed |-> hist.pushed[i].seg]

\* C1: once the N chunks formed so far have all been processed,
\* _processed_seconds equals N x chunk_seconds.
C1_OffsetIsChunksTimesChunkSeconds ==
    Quiescent => processed_seconds = hist.chunks * chunk_seconds

\* C1, the case: two chunks have been processed to the end.
C1_TwoChunksProcessed == Quiescent /\ hist.chunks = 2

\* C2: the number of transcribe calls is the number of voiced chunks (a
\* silent chunk never reaches the model), and counting a silent chunk
\* advances the accumulator by chunk_seconds without a model call.
C2_SilentNeverTranscribedStillCounted ==
    /\ [](hist.calls = hist.voiced - Cardinality(BeforeCall))
    /\ [][\A w \in Threads :
            (wpc[w] = "silent_write" /\ wpc'[w] = "while")
            => /\ processed_seconds' = processed_seconds + chunk_seconds
               /\ hist'.calls = hist.calls]_vars

\* C3: at most one call of the model is in progress.
C3_AtMostOneTranscribeInFlight ==
    Cardinality({w \in Threads : wpc[w] = "transcribe"}) <= 1

\* C4: Segments are pushed in the order of their chunks, and the consumer
\* receives them in the order they were pushed.
C4_PushedInChunkOrderDeliveredFifo ==
    /\ \A i, j \in DOMAIN hist.pushed :
         (i < j /\ hist.pushed[i].kind # "err" /\ hist.pushed[j].kind # "err")
         => hist.pushed[i].k <= hist.pushed[j].k
    /\ hist.delivered \o seg_q = PushedSegs

\* C5: a failed chunk k leaves exactly one diagnostic Segment, with
\* start = end = (k-1) x chunk_seconds, and the worker goes on with the
\* next iteration as it does after a chunk that succeeded.
C5_OneDiagnosticAtChunkOffset ==
    /\ [](\A i \in DOMAIN hist.pushed :
            hist.pushed[i].kind = "warn"
            => /\ hist.pushed[i].seg.start = ChunkOffset(hist.pushed[i].k)
               /\ hist.pushed[i].seg.end = ChunkOffset(hist.pushed[i].k)
               /\ \A j \in DOMAIN hist.pushed :
                    (hist.pushed[j].kind = "warn"
                     /\ hist.pushed[j].k = hist.pushed[i].k) => j = i)
    /\ [][\A w \in Threads :
            (wpc[w] = "transcribe" /\ wpc'[w] # wpc[w] /\ wpc'[w] # "put")
            => wpc'[w] = "while" /\ wloc'[w] = NoLocals]_vars

\* C6: the only Segment pushed for a chunk whose model call failed is its
\* diagnostic Segment.
C6_FailedChunkPushesOnlyDiagnostic ==
    \A i, j \in DOMAIN hist.pushed :
        (hist.pushed[i].kind = "warn" /\ hist.pushed[j].k = hist.pushed[i].k)
        => j = i

\* C8: a transcript Segment of chunk k starts inside the chunk's window,
\* [(k-1) x chunk_seconds, k x chunk_seconds).
C8_StartInsideChunkWindow ==
    \A i \in DOMAIN hist.pushed :
        hist.pushed[i].kind = "text"
        => /\ hist.pushed[i].seg.start >= ChunkOffset(hist.pushed[i].k)
           /\ hist.pushed[i].seg.start < ChunkOffset(hist.pushed[i].k) + chunk_seconds

\* Everything but the consumer thread's own position.
Rest == <<running, stream, audio_q, seg_q, segments, processed_seconds,
          wpc, wloc, spc, sobj, device, hist>>

\* C7 (as amended): offset is what the worker read from the accumulator at
\* line 179, before line 180 counts the chunk, and it keeps that value for
\* the whole chunk; every yielded triple whose stripped text is not empty
\* becomes the Segment (start + offset, end + offset, stripped text), so
\* that its duration and start <= end are those of the triple, and that
\* Segment is appended to the log and then pushed.
C7_OffsetAddedToStartAndEnd ==
    [][\A w \in Threads :
        /\ (wpc[w] = "offset" /\ wpc'[w] = "count_read")
           => /\ wloc'[w].offset = processed_seconds
              /\ hist'.counted = hist.counted
        /\ (wpc[w] \in {"count_read", "count_write", "transcribe", "put"}
            /\ wpc'[w] \in {"count_write", "transcribe", "put"})
           => wloc'[w].offset = wloc[w].offset
        /\ (wpc[w] = "transcribe" /\ wpc'[w] = "put")
           => LET tr == wloc'[w].tr
                  s == wloc'[w].s
              IN /\ s.start = tr.start + wloc[w].offset
                 /\ s.end = tr.end + wloc[w].offset
                 /\ s.text = Strip(tr.text) /\ s.text # <<>>
                 /\ s.end - s.start = tr.end - tr.start
                 /\ tr.start <= tr.end => s.start <= s.end
                 /\ segments' = Append(segments, s)
        /\ (wpc[w] = "put" /\ wpc'[w] # "put")
           => seg_q' = Append(seg_q, wloc[w].s)]_vars

\* C7, the case: a Segment built from a triple that starts after the start
\* of its chunk, in a chunk that is not the first.
C7_SegmentBuiltWithOffset ==
    \E w \in Threads :
        /\ wpc[w] = "put"
        /\ wloc[w].offset > 0
        /\ wloc[w].tr.start > 0
        /\ wloc[w].s.start = wloc[w].tr.start + wloc[w].offset

\* C7 as stated: the emitted Segment carries the triple's text as returned.
C7_SegmentCarriesReturnedText ==
    [][\A w \in Threads :
        (wpc[w] = "transcribe" /\ wpc'[w] = "put")
        => wloc'[w].s = RealtimeSegment(wloc'[w].tr.start + wloc[w].offset,
                                        wloc'[w].tr.end + wloc[w].offset,
                                        wloc'[w].tr.text)]_vars

C11_GetNeverBlocksDeliversOldestOnce ==
    /\ []((ctor.pc = "done" /\ caller = "idle") => ENABLED GetSegmentNowait)
    /\ [](hist.delivered \o seg_q = PushedSegs)
    /\ [][/\ hist'.delivered # hist.delivered
             => /\ seg_q # <<>>
                /\ hist'.delivered = Append(hist.delivered, Head(seg_q))
                /\ seg_q' = Tail(seg_q)
                /\ hist'.pushed = hist.pushed
                /\ UNCHANGED <<running, stream, audio_q, segments,
                               processed_seconds, caller, wpc, wloc, spc, sobj>>
          /\ Len(seg_q') < Len(seg_q)
             => hist'.delivered # hist.delivered]_vars

\* C11, the case: the consumer has taken two different Segments while a
\* third push is still queued.
C11_TwoDeliveredOneQueued ==
    /\ Len(hist.delivered) = 2
    /\ hist.delivered[1] # hist.delivered[2]
    /\ seg_q # <<>>

\* The supervisor threads that ended in the handler of lines 150-152.
Failed == {t \in Threads : spc[t].pc = "done" /\ spc[t].target = 0}

\* The synthetic stream-error Segments pushed so far.
ErrPushes == {i \in DOMAIN hist.pushed : hist.pushed[i].kind = "err"}

\* The stream of supervisor t failed to open, and the supervisor has not
\* yet pushed its Segment or the worker spawned with it is still in its
\* loop.  Both ends are final, so that this ceases to hold means that it
\* never holds again.
OpenFailurePending(t) ==
    /\ device = "open_fails"
    /\ spc[t].pc \in {"fail_put", "done"}
    /\ ~(spc[t].pc = "done" /\ wpc[t] = "done")

\* C12: when sd.InputStream() raises, the supervisor clears the run flag
\* and pushes one synthetic Segment with start = end = 0 and no other: the
\* stream-error Segments pushed are as many as the supervisors that have
\* failed; and the worker thread spawned with that supervisor then leaves
\* its loop, whether or not the consumer calls stop().
C12_OpenFailureClearsFlagPushesOneExitsWorker ==
    /\ [](device = "open_fails"
          => /\ Cardinality(ErrPushes) = Cardinality(Failed)
             /\ \A i \in DOMAIN hist.pushed :
                  /\ hist.pushed[i].kind = "err"
                  /\ hist.pushed[i].seg.start = 0
                  /\ hist.pushed[i].seg.end = 0)
    /\ [][\A t \in Threads :
            /\ (device = "open_fails" /\ spc[t].pc = "open" /\ spc'[t].pc # "open")
               => /\ spc'[t].pc = "fail_put"
                  /\ ~running'
                  /\ UNCHANGED <<seg_q, stream, sobj>>
            /\ (spc[t].pc = "fail_put" /\ spc'[t].pc # "fail_put")
               => /\ spc'[t].pc = "done"
                  /\ Len(seg_q') = Len(seg_q) + 1
                  /\ seg_q'[Len(seg_q')].start = 0
                  /\ seg_q'[Len(seg_q')].end = 0]_vars
    /\ \A t \in Threads : []<>~OpenFailurePending(t)

\* C12, the case: the stream failed to open, its error Segment is queued
\* and the worker has left its loop, and stop() was never called.
C12_WorkerExitedAfterOpenFailure ==
    /\ device = "open_fails"
    /\ hist.stops = 0
    /\ spc[1].pc = "done" /\ wpc[1] = "done"
    /\ ~running
    /\ Len(seg_q) = 1

\* C13: after the device of a started stream has dropped while the run
\* flag is set, the run flag is cleared and a synthetic stream-error
\* Segment is on record as pushed.
C13_DropSurfacesAsSegmentAndHalts ==
    \A t \in Threads :
        (sobj[t] = "dropped" /\ running) ~> (~running /\ ErrPushes # {})

\* C14: leaving the synthetic error and warning Segments aside, the
\* Segments are pushed with non-decreasing start.
C14_TranscriptStartsNonDecreasing ==
    \A i, j \in DOMAIN hist.pushed :
        (i < j /\ hist.pushed[i].kind = "text" /\ hist.pushed[j].kind = "text")
        => hist.pushed[i].seg.start <= hist.pushed[j].seg.start

\* Thread pair t has been spawned and has not wholly left its loops, while
\* stop() has been called and the run flag is clear.
ShutdownPending(t) ==
    /\ hist.stops > 0 /\ ~running
    /\ t <= hist.spawned
    /\ ~(spc[t].pc = "done" /\ wpc[t] = "done")

\* C15: whenever stop() has been called and the flag is clear, either the
\* flag is set again (by a later start()) or the capture-supervisor thread
\* and the worker thread of every pair spawned leave their loops; a state
\* with the flag clear and a thread still in its loop does not last.
C15_StopTerminatesBothThreads ==
    \A t \in Threads : []<>~ShutdownPending(t)

\* C15, the case: stop() was called once and start() once, no buffer was
\* ever enqueued, and both threads have left their loops.
C15_BothExitedWithEmptyQueue ==
    /\ hist.stops = 1 /\ hist.spawned = 1 /\ ~running
    /\ hist.frames = 0 /\ audio_q = <<>>
    /\ spc[1].pc = "done" /\ spc[1].target = 1
    /\ wpc[1] = "done"

\* C16: once a run has been started and the run flag is clear again (stop()
\* was called or the stream failed), the flag is never set again and no
\* further thread is spawned.
C16_NeverRunningAgain ==
    [][(hist.spawned > 0 /\ ~running)
       => (~running' /\ hist'.spawned = hist.spawned)]_vars

\* A capability is missing: np, sd or WhisperModel is None.
MissingCapability == ~imports.np \/ ~imports.sd \/ ~imports.WhisperModel

\* C17: with a capability missing the constructor raises from its tests,
\* with no queue, model or other attribute created, and no thread is ever
\* started.
C17_MissingCapabilityRaisesBeforeAnything ==
    /\ [](MissingCapability
          => /\ ctor.pc \in {"call", "raised"}
             /\ ctor.created = {}
             /\ hist.spawned = 0
             /\ \A t \in Threads : wpc[t] = "unborn" /\ spc[t].pc = "unborn")
    /\ [][(MissingCapability /\ ctor.pc = "call" /\ ctor' # ctor)
          => ctor'.pc = "raised"]_vars

\* C17, the case: np and sd are there, WhisperModel is not, and the
\* constructor has raised.
C17_RaisedForMissingModelLibrary ==
    /\ imports.np /\ imports.sd /\ ~imports.WhisperModel
    /\ ctor.pc = "raised"

\* translate_text returns this text as it is, without translating it.
Untranslated(t) == Strip(t) = <<>> \/ contains_chinese(t)

C20_EveryFailureIsAValue ==
    /\ [](task_json # "non_object" => apc # "raised")
    /\ []((apc \in {"dumps", "returned"} /\ task_json \in {"dict", "object"})
          => /\ task.action \notin SUPPORTED_ACTIONS
                => (reply.status = "error" /\ reply.message = task.action)
             /\ (task.action \in SUPPORTED_ACTIONS /\ MissingParameter(task))
                => (reply.status = "error" /\ pcalls = 0)
             /\ (task.action \in ProcessorActions /\ ~MissingParameter(task)
                 /\ processor = "raises")
                => reply.status = "error")
    /\ [](task_json = "invalid"
          => /\ apc \in {"run_task_json", "returned"}
             /\ pcalls = 0
             /\ apc = "returned" => reply.status = "error")

\* The chunk worker w holds: what line 170 flattened and the gate of lines
\* 174-175 was given, kept until the chunk has been processed.
HoldsChunk(w) ==
    wpc[w] \in {"silent_read", "silent_write", "offset", "count_read",
                "count_write", "transcribe", "put"}

\* C21: every chunk handed to the energy gate has exactly
\* chunk_seconds x sample_rate samples.
C21_ChunkHasExactlySamplesNeeded ==
    \A w \in Threads : HoldsChunk(w) => Len(wloc[w].audio) = samples_needed

\* C22: once the chunks formed so far have all been processed,
\* _processed_seconds x sample_rate is the number of samples the workers
\* have taken from the raw-frame queue and formed into chunks.
C22_OffsetIsSamplesConsumed ==
    Quiescent => processed_seconds * sample_rate = hist.samples

\* C23: the field self._stream is written, and a stream object is opened,
\* started, stopped or closed, in steps of a capture-supervisor thread only
\* (not in a step of the consumer's thread), and a model call is entered in
\* steps of a worker thread only.
C23_HandlesTouchedByOwnerOnly ==
    [][/\ (\/ stream' # stream
           \/ \E o \in Threads :
                sobj'[o] # sobj[o] /\ sobj'[o] \in {"created", "active", "closed"})
          => /\ caller' = caller
             /\ \E t \in Threads : spc'[t] # spc[t]
       /\ hist'.calls # hist.calls
          => /\ caller' = caller
             /\ \E w \in Threads : wpc'[w] # wpc[w]]_vars

\* The worker threads that are inside the loop of _worker_loop.
LiveWorkers == {w \in Threads : wpc[w] \notin {"unborn", "done"}}

\* The supervisor threads that have opened a stream and are inside the try
\* block of _stream_loop.
LiveSupervisors == {t \in Threads : spc[t].pc \in {"enter", "poll"}}

\* C24: at most one worker thread is in its loop and at most one
\* capture-supervisor thread holds a stream.
C24_AtMostOneWorkerOneSupervisor ==
    /\ Cardinality(LiveWorkers) <= 1
    /\ Cardinality(LiveSupervisors) <= 1

\* C25: with a device that opens and starts, once stop() has been called
\* and has returned and a capture-supervisor thread has exited, the stream
\* that thread opened (if it opened one) has been closed.
C25_ExitedSupervisorLeftStreamClosed ==
    (device = "ok" /\ hist.stops > 0 /\ caller = "idle")
    => \A t \in Threads : spc[t].pc = "done" => sobj[t] \in {"none", "closed"}

\* The audio subsystem has a buffer for the callback: a stream is active
\* and the device has not delivered all the buffers of this run.
CallbackDue == (\E o \in Threads : sobj[o] = "active") /\ hist.frames < supply

TranscriptPushed ==
    LET texts == SelectSeq(hist.pushed, LAMBDA p : p.kind = "text")
    IN [i \in DOMAIN texts |-> texts[i].seg]

\* C27: whenever no worker thread stands between the append of line 194
\* and the put of line 195, the segments log is the sequence of transcript
\* Segments pushed so far, in push order (the diagnostic and stream-error
\* Segments are not in it).
C27_LogIsTranscriptPushed ==
    (\A w \in Threads : wpc[w] # "put") => segments = TranscriptPushed

\* stop() has been called and has returned, and the run flag is clear (no
\* start() has set it since).
Stopped == hist.stops > 0 /\ caller = "idle" /\ ~running

\* C28: while stop() has returned and the flag is clear, no step forms a
\* chunk, advances the offset accumulator or enters a model call.
C28_NothingNewAfterStop ==
    [][Stopped
       => /\ hist'.chunks = hist.chunks
          /\ processed_seconds' = processed_seconds
          /\ hist'.calls = hist.calls]_vars

\* C29: with a device that opens and starts and has not dropped, no
\* capture-supervisor thread takes the failure path of lines 150-152,
\* hence none pushes a stream-error Segment.
C29_HealthyDeviceNeverFails ==
    [][(device = "ok" /\ \A o \in Threads : sobj[o] # "dropped")
       => \A t \in Threads :
            spc'[t].pc = "fail_put" => spc[t].pc = "fail_put"]_vars

\* C30: no video file is passed to the processor twice within one session,
\* that is, by threads that found the stop event clear between the same
\* watch_directory() and the next; a call of the processor, whether
\* it returns or raises, is followed by the next turn of the for loop; and,
\* given a poll interval that is not negative, a watcher thread leaves its
\* loop only when it finds the stop event set, after a stop_watching().
C30_OncePerSessionAndLoopSurvives ==
    /\ [](\A i, j \in DOMAIN whist.passed :
            (whist.passed[i].session = whist.passed[j].session
             /\ whist.passed[i].entry = whist.passed[j].entry) => i = j)
    /\ [][\A t \in WatchThreads :
            /\ (lpc[t].pc = "process" /\ lpc'[t].pc # "process")
               => lpc'[t].pc = "for"
            /\ (poll_interval >= 0 /\ is_alive(t)
                /\ lpc'[t].pc \in {"exited", "died"})
               => (lpc'[t].pc = "exited" /\ stop_watch_event
                   /\ whist.stops > 0)]_vars

====
